---- MODULE Spec2Model ----
(***************************************************************************)
(* A model of x12_parser.py: the streaming X12 parser (X12Parser) with its *)
(* chunked text buffer, the delimiter extraction from the 106-character    *)
(* ISA segment, the segment tokenizer and the ISA/GS/ST envelope state     *)
(* machine with its count and control-number validation.                   *)
(*                                                                         *)
(* Text is a sequence of one-character strings.  Python's None is the      *)
(* empty sequence <<>> and an object reference is <<object>>, except for   *)
(* X12FunctionalGroup objects, which are aliased (the parser's current     *)
(* group is also an element of its interchange's list) and therefore live  *)
(* in a heap, fgs, and are referred to by their index (0 is None).         *)
(***************************************************************************)
EXTENDS Integers, Sequences, FiniteSets, TLC

\* ------------------------------------------------------------------ text

\* str.strip() with no argument strips whitespace; these are the whitespace
\* characters of the model's alphabet.
Whitespace == {" ", "\n"}

MinOf(S) == CHOOSE x \in S : \A y \in S : x <= y

\* s[a:b] of Python, 0-based and half-open.
Slice(s, a, b) == SubSeq(s, a + 1, b)

\* str.find(c) for a one-character c: the 0-based index of the first
\* occurrence, or -1.
Find(s, c) ==
  IF \E i \in 1..Len(s) : s[i] = c
  THEN (CHOOSE i \in 1..Len(s) :
          s[i] = c /\ \A j \in 1..(i - 1) : s[j] # c) - 1
  ELSE -1

\* str.strip()
Strip(s) ==
  IF \A i \in 1..Len(s) : s[i] \in Whitespace THEN <<>>
  ELSE SubSeq(s,
         CHOOSE i \in 1..Len(s) :
           s[i] \notin Whitespace /\ \A j \in 1..(i - 1) : s[j] \in Whitespace,
         CHOOSE i \in 1..Len(s) :
           s[i] \notin Whitespace
             /\ \A j \in (i + 1)..Len(s) : s[j] \in Whitespace)

\* str.split(sep) for a one-character sep: always at least one piece.
RECURSIVE Split(_, _)
Split(s, sep) ==
  LET p == Find(s, sep)
  IN  IF p = -1 THEN <<s>>
      ELSE <<Slice(s, 0, p)>> \o Split(Slice(s, p + 1, Len(s)), sep)

\* str.startswith
StartsWith(s, prefix) ==
  Len(s) >= Len(prefix) /\ SubSeq(s, 1, Len(prefix)) = prefix

Digits == {"0", "1", "2", "3", "4", "5", "6", "7", "8", "9"}

DigitVal(c) ==
  CASE c = "0" -> 0 [] c = "1" -> 1 [] c = "2" -> 2 [] c = "3" -> 3
    [] c = "4" -> 4 [] c = "5" -> 5 [] c = "6" -> 6 [] c = "7" -> 7
    [] c = "8" -> 8 [] c = "9" -> 9

RECURSIVE DecimalVal(_)
DecimalVal(s) ==
  IF s = <<>> THEN 0
  ELSE 10 * DecimalVal(SubSeq(s, 1, Len(s) - 1)) + DigitVal(s[Len(s)])

\* int(x): x is <<>> (None: TypeError) or <<text>>; surrounding whitespace is
\* ignored, a text that is not a run of digits raises ValueError.  The result
\* is <<n>>, or <<>> when int() raises.
IntOf(x) ==
  IF x = <<>> THEN <<>>
  ELSE LET t == Strip(x[1])
       IN  IF t # <<>> /\ \A i \in 1..Len(t) : t[i] \in Digits
           THEN <<DecimalVal(t)>> ELSE <<>>

\* ------------------------------------------------------------ data model

\* X12Parser._create_segment, with X12Element.__post_init__
CreateSegment(segment_id, elements, position) ==
  [segment_id |-> segment_id,
   elements   |-> [i \in 1..(Len(elements) - 1) |->
                    [value |-> Strip(elements[i + 1]), position |-> i]],
   position   |-> position]

\* X12Segment.get_element: <<value>>, or <<>> for None
GetElement(segment, position) ==
  LET at == {i \in 1..Len(segment.elements) :
               segment.elements[i].position = position}
  IN  IF at = {} THEN <<>> ELSE <<segment.elements[MinOf(at)].value>>

ISA == <<"I", "S", "A">>
IEA == <<"I", "E", "A">>
GS == <<"G", "S">>
GE == <<"G", "E">>
ST == <<"S", "T">>
SE == <<"S", "E">>

\* The X12ParsingError messages (and the exceptions int() raises), by kind.
NoError == "none"

\* X12TransactionSet.validate without its comparison of the counts.
TransactionSetValidate_NoCount(ts) ==
  IF ts.segments = <<>> THEN "TransactionSetEmpty"
  ELSE IF ts.segments[1].segment_id # ST THEN "TransactionSetNoST"
  ELSE IF ts.segments[Len(ts.segments)].segment_id # SE
       THEN "TransactionSetNoSE"
  ELSE IF IntOf(GetElement(ts.segments[Len(ts.segments)], 1)) = <<>>
       THEN "IntError"
  ELSE NoError

\* X12TransactionSet.validate: the error it raises, or NoError
TransactionSetValidate(ts) ==
  IF ts.segments = <<>> THEN "TransactionSetEmpty"
  ELSE IF ts.segments[1].segment_id # ST THEN "TransactionSetNoST"
  ELSE IF ts.segments[Len(ts.segments)].segment_id # SE
       THEN "TransactionSetNoSE"
  ELSE LET se_count == IntOf(GetElement(ts.segments[Len(ts.segments)], 1))
       IN  IF se_count = <<>> THEN "IntError"
           ELSE IF se_count[1] # Len(ts.segments) THEN "SECountMismatch"
           ELSE NoError

\* X12FunctionalGroup.validate
FunctionalGroupValidate(fg) ==
  IF fg.transaction_sets = <<>> THEN "FunctionalGroupEmpty"
  ELSE IF fg.gs_segment = <<>> THEN "FunctionalGroupNoGS"
  ELSE IF fg.ge_segment # <<>>
       THEN LET declared_count == IntOf(GetElement(fg.ge_segment[1], 1))
            IN  IF declared_count = <<>> THEN "IntError"
                ELSE IF Len(fg.transaction_sets) # declared_count[1]
                     THEN "TransactionSetCountMismatch"
                ELSE NoError
  ELSE NoError

\* X12Interchange.validate
InterchangeValidate(ic) ==
  IF ic.functional_groups = <<>> THEN "InterchangeEmpty"
  ELSE IF ic.isa_segment = <<>> THEN "InterchangeNoISA"
  ELSE IF ic.iea_segment # <<>>
       THEN LET declared_count == IntOf(GetElement(ic.iea_segment[1], 1))
            IN  IF declared_count = <<>> THEN "IntError"
                ELSE IF Len(ic.functional_groups) # declared_count[1]
                     THEN "FunctionalGroupCountMismatch"
                ELSE NoError
  ELSE NoError

\* ------------------------------------------------- envelope state machine

\* The state the segment handlers read and write is a record s with the
\* parser's fields current_interchange, current_functional_group,
\* current_transaction_set, interchanges and the heap fgs.  A handler yields
\* the state it leaves behind and the error it raised (NoError when it
\* returned): what it assigned before raising stays assigned.
Returns(s) == [state |-> s, error |-> NoError]

Raises(s, e) == [state |-> s, error |-> e]

\* elements[i] of Python (0-based)
El(elements, i) == elements[i + 1]

\* X12Parser._format_entity_id
FormatEntityId(qualifier, entity_id) ==
  IF Strip(qualifier) # <<>> THEN qualifier \o <<":">> \o entity_id
  ELSE Strip(entity_id)

\* _process_isa_segment recording the component separator its own ISA
\* declares, its 16th element.
ProcessIsaSegment_OwnSeparator(s, elements, element_separator, component_separator, segment_terminator) ==
  IF Len(elements) # 17 THEN Raises(s, "ISAElementCount")
  ELSE IF s.current_interchange # <<>> THEN Raises(s, "ISAWhileOpen")
  ELSE Returns([s EXCEPT !.current_interchange = <<
         [control_number      |-> El(elements, 13),
          sender_id           |-> FormatEntityId(Strip(El(elements, 5)),
                                                 Strip(El(elements, 6))),
          receiver_id         |-> FormatEntityId(Strip(El(elements, 7)),
                                                 Strip(El(elements, 8))),
          date                |-> El(elements, 9),
          time                |-> El(elements, 10),
          version             |-> El(elements, 12),
          element_separator   |-> element_separator,
          component_separator |-> El(elements, 16)[1],
          segment_terminator  |-> segment_terminator,
          functional_groups   |-> <<>>,
          isa_segment         |-> <<CreateSegment(ISA, elements, 1)>>,
          iea_segment         |-> <<>>] >>])

\* X12Parser._process_isa_segment
ProcessIsaSegment(s, elements, element_separator, component_separator, segment_terminator) ==
  IF Len(elements) # 17 THEN Raises(s, "ISAElementCount")
  ELSE IF s.current_interchange # <<>> THEN Raises(s, "ISAWhileOpen")
  ELSE Returns([s EXCEPT !.current_interchange = <<
         [control_number      |-> El(elements, 13),
          sender_id           |-> FormatEntityId(Strip(El(elements, 5)),
                                                 Strip(El(elements, 6))),
          receiver_id         |-> FormatEntityId(Strip(El(elements, 7)),
                                                 Strip(El(elements, 8))),
          date                |-> El(elements, 9),
          time                |-> El(elements, 10),
          version             |-> El(elements, 12),
          element_separator   |-> element_separator,
          component_separator |-> component_separator,
          segment_terminator  |-> segment_terminator,
          functional_groups   |-> <<>>,
          isa_segment         |-> <<CreateSegment(ISA, elements, 1)>>,
          iea_segment         |-> <<>>] >>])

\* X12Parser._process_iea_segment
ProcessIeaSegment(s, elements) ==
  IF Len(elements) # 3 THEN Raises(s, "IEAElementCount")
  ELSE IF s.current_interchange = <<>> THEN Raises(s, "IEAWithoutISA")
  ELSE
    LET ic == [s.current_interchange[1] EXCEPT
                 !.iea_segment = <<CreateSegment(IEA, elements, 2)>>]
        s1 == [s EXCEPT !.current_interchange = <<ic>>]
        invalid == InterchangeValidate(ic)
    IN  IF El(elements, 2) # ic.control_number
        THEN Raises(s1, "IEAControlNumber")
        ELSE IF invalid # NoError THEN Raises(s1, invalid)
        ELSE Returns([s1 EXCEPT !.interchanges = Append(@, ic),
                                !.current_interchange = <<>>])

\* X12Parser._process_gs_segment
ProcessGsSegment(s, elements) ==
  IF Len(elements) # 9 THEN Raises(s, "GSElementCount")
  ELSE IF s.current_interchange = <<>>
       THEN Raises(s, "GSOutsideInterchange")
  ELSE
    LET fg == [control_number   |-> El(elements, 6),
               sender_id        |-> El(elements, 2),
               receiver_id      |-> El(elements, 3),
               date             |-> El(elements, 4),
               time             |-> El(elements, 5),
               version          |-> El(elements, 8),
               transaction_sets |-> <<>>,
               gs_segment       |-> <<CreateSegment(GS, elements, 1)>>,
               ge_segment       |-> <<>>]
        ref == Len(s.fgs) + 1
    IN  Returns([s EXCEPT
          !.fgs = Append(@, fg),
          !.current_functional_group = ref,
          !.current_interchange[1].functional_groups = Append(@, ref)])

\* _validate_ge_segment without its comparison of the control numbers.
ValidateGeSegment_NoControl(fg, elements) ==
  LET declared_count == IntOf(<<El(elements, 1)>>)
  IN  IF declared_count = <<>> THEN "IntError"
      ELSE IF Len(fg.transaction_sets) # declared_count[1]
           THEN "GECountMismatch"
      ELSE NoError

\* X12Parser._validate_ge_segment: the error it raises, or NoError
ValidateGeSegment(fg, elements) ==
  LET declared_count == IntOf(<<El(elements, 1)>>)
  IN  IF declared_count = <<>> THEN "IntError"
      ELSE IF Len(fg.transaction_sets) # declared_count[1]
           THEN "GECountMismatch"
      ELSE IF El(elements, 2) # fg.control_number THEN "GEControlNumber"
      ELSE NoError

\* X12Parser._process_ge_segment
ProcessGeSegment(s, elements) ==
  IF Len(elements) # 3 THEN Raises(s, "GEElementCount")
  ELSE IF s.current_functional_group = 0 THEN Raises(s, "GEWithoutGS")
  ELSE
    LET ref == s.current_functional_group
        s1 == [s EXCEPT !.fgs[ref].ge_segment =
                          <<CreateSegment(GE, elements, 2)>>]
        mismatch == ValidateGeSegment(s1.fgs[ref], elements)
        invalid == FunctionalGroupValidate(s1.fgs[ref])
    IN  IF mismatch # NoError THEN Raises(s1, mismatch)
        ELSE IF invalid # NoError THEN Raises(s1, invalid)
        ELSE Returns([s1 EXCEPT !.current_functional_group = 0])

\* _process_st_segment without its test of the open functional group.
ProcessStSegment_AnyContext(s, elements) ==
  IF Len(elements) # 3 THEN Raises(s, "STElementCount")
  ELSE Returns([s EXCEPT !.current_transaction_set = <<
         [control_number |-> El(elements, 2),
          doc_type       |-> El(elements, 1),
          segments       |-> <<CreateSegment(ST, elements, 1)>>,
          segment_count  |-> 1] >>])

\* X12Parser._process_st_segment
ProcessStSegment(s, elements) ==
  IF Len(elements) # 3 THEN Raises(s, "STElementCount")
  ELSE IF s.current_functional_group = 0
       THEN Raises(s, "STOutsideFunctionalGroup")
  ELSE Returns([s EXCEPT !.current_transaction_set = <<
         [control_number |-> El(elements, 2),
          doc_type       |-> El(elements, 1),
          segments       |-> <<CreateSegment(ST, elements, 1)>>,
          segment_count  |-> 1] >>])

\* X12Parser._process_se_segment
ProcessSeSegment(s, elements) ==
  IF Len(elements) # 3 THEN Raises(s, "SEElementCount")
  ELSE IF s.current_transaction_set = <<>> THEN Raises(s, "SEWithoutST")
  ELSE
    LET ts0 == s.current_transaction_set[1]
        ts == [ts0 EXCEPT
                 !.segment_count = @ + 1,
                 !.segments = Append(@, CreateSegment(SE, elements,
                                                      ts0.segment_count + 1))]
        s1 == [s EXCEPT !.current_transaction_set = <<ts>>]
        invalid == TransactionSetValidate(ts)
        s2 == IF s1.current_functional_group # 0
              THEN [s1 EXCEPT !.fgs[s1.current_functional_group]
                                 .transaction_sets = Append(@, ts)]
              ELSE s1
    IN  IF El(elements, 2) # ts.control_number
        THEN Raises(s1, "SEControlNumber")
        ELSE IF invalid # NoError THEN Raises(s1, invalid)
        ELSE Returns([s2 EXCEPT !.current_transaction_set = <<>>])

\* _process_data_segment without its increment of segment_count.
ProcessDataSegment_NoIncrement(s, segment_id, elements) ==
  IF s.current_transaction_set = <<>>
  THEN Raises(s, "DataOutsideTransactionSet")
  ELSE
    LET ts0 == s.current_transaction_set[1]
    IN  Returns([s EXCEPT !.current_transaction_set[1] =
          [ts0 EXCEPT
             !.segments = Append(@, CreateSegment(segment_id, elements,
                                                  ts0.segment_count + 1))]])

\* X12Parser._process_data_segment
ProcessDataSegment(s, segment_id, elements) ==
  IF s.current_transaction_set = <<>>
  THEN Raises(s, "DataOutsideTransactionSet")
  ELSE
    LET ts0 == s.current_transaction_set[1]
    IN  Returns([s EXCEPT !.current_transaction_set[1] =
          [ts0 EXCEPT
             !.segment_count = @ + 1,
             !.segments = Append(@, CreateSegment(segment_id, elements,
                                                  ts0.segment_count + 1))]])

\* X12Parser._process_segment
ProcessSegment(s, segment_id, elements, element_separator, component_separator, segment_terminator) ==
  IF segment_id = ISA
  THEN ProcessIsaSegment(s, elements, element_separator, component_separator,
                         segment_terminator)
  ELSE IF segment_id = IEA THEN ProcessIeaSegment(s, elements)
  ELSE IF segment_id = GS THEN ProcessGsSegment(s, elements)
  ELSE IF segment_id = GE THEN ProcessGeSegment(s, elements)
  ELSE IF segment_id = ST THEN ProcessStSegment(s, elements)
  ELSE IF segment_id = SE THEN ProcessSeSegment(s, elements)
  ELSE IF s.current_transaction_set # <<>>
       THEN ProcessDataSegment(s, segment_id, elements)
  ELSE Raises(s, "UnexpectedSegment")

\* ------------------------------------------------------------- tokenizer

\* The buffer emptied after a segment: what follows the terminator is lost.
AfterTerminator_DropsRest(text_buffer, terminator_pos) == <<>>

\* self.text_buffer[terminator_pos + len(segment_terminator):]
AfterTerminator(text_buffer, terminator_pos) ==
  Slice(text_buffer, terminator_pos + 1, Len(text_buffer))

\* The slice before the terminator, not stripped.
SegmentStr_NoStrip(text_buffer, terminator_pos) ==
  Slice(text_buffer, 0, terminator_pos)

\* self.text_buffer[:terminator_pos].strip()
SegmentStr(text_buffer, terminator_pos) ==
  Strip(Slice(text_buffer, 0, terminator_pos))

\* No slice is taken for an empty segment.
EmptySegment_Never(segment_str) == FALSE

\* if not segment_str: the slice is empty once stripped
EmptySegment(segment_str) == segment_str = <<>>

RECURSIVE ProcessChunk(_, _, _)

\* The exception of _process_segment swallowed: the loop goes on.
Raised_Continues(rest, r, segment_str, d) ==
  LET t == ProcessChunk(rest, r.state, d)
  IN  [t EXCEPT !.handed = <<segment_str>> \o @]

\* _process_chunk when _process_segment raised (r) on segment_str: the
\* exception leaves the loop, with the rest of the buffer unprocessed.
Raised(rest, r, segment_str, d) ==
  [text_buffer |-> rest, state |-> r.state, error |-> r.error,
   handed |-> <<segment_str>>]

\* X12Parser._process_chunk, from the buffer text_buffer and the state s, with
\* the delimiters d: the buffer and the state it leaves, the error it raised
\* and, in handed, the segments it passed to _process_segment, in order.
ProcessChunk(text_buffer, s, d) ==
  LET terminator_pos == Find(text_buffer, d.segment_terminator)
  IN  IF text_buffer = <<>> \/ terminator_pos = -1
      THEN [text_buffer |-> text_buffer, state |-> s, error |-> NoError,
            handed |-> <<>>]
      ELSE
        LET segment_str == SegmentStr(text_buffer, terminator_pos)
            rest == AfterTerminator(text_buffer, terminator_pos)
            elements == Split(segment_str, d.element_separator)
            r == ProcessSegment(s, elements[1], elements, d.element_separator,
                                d.component_separator, d.segment_terminator)
        IN  IF EmptySegment(segment_str) THEN ProcessChunk(rest, s, d)
            ELSE IF r.error # NoError THEN Raised(rest, r, segment_str, d)
            ELSE LET t == ProcessChunk(rest, r.state, d)
                 IN  [t EXCEPT !.handed = <<segment_str>> \o @]

\* --------------------------------------------------------------- inputs

\* The files parsed: a 106-character opening (or a shorter file), followed by
\* at most MaxSegs pieces of text taken from Segs.
MaxSegs == 5

Spaces(n) == [i \in 1..n |-> " "]

RECURSIVE Join(_, _)
Join(fields, sep) ==
  IF Len(fields) = 1 THEN fields[1]
  ELSE fields[1] \o <<sep>> \o Join(Tail(fields), sep)

\* ISA*00*          *00*          *ZZ*S              *ZZ*R              *
\* 010101*0101*U*00401*000000001*0*P*:~
IsaText ==
  Join(<< ISA, <<"0", "0">>, Spaces(10), <<"0", "0">>, Spaces(10),
          <<"Z", "Z">>, <<"S">> \o Spaces(14),
          <<"Z", "Z">>, <<"R">> \o Spaces(14),
          <<"0", "1", "0", "1", "0", "1">>, <<"0", "1", "0", "1">>, <<"U">>,
          <<"0", "0", "4", "0", "1">>,
          <<"0", "0", "0", "0", "0", "0", "0", "0", "1">>,
          <<"0">>, <<"P">>, <<":">> >>, "*") \o <<"~">>

\* As long as IsaText, but it does not begin with ISA.
NotIsaText == <<"X">> \o Tail(IsaText)

\* An ISA of 106 characters with the terminator character in its sender id.
IsaTextEarly == [IsaText EXCEPT ![40] = "~"]

SegGS == \* GS*F*S*R*D*T*1*X*V~
  <<"G", "S", "*", "F", "*", "S", "*", "R", "*", "D", "*", "T", "*", "1", "*", "X", "*", "V", "~">>
SegST == \* ST*270*1~
  <<"S", "T", "*", "2", "7", "0", "*", "1", "~">>
SegREF == \* \nREF*A~
  <<"\n", "R", "E", "F", "*", "A", "~">>
SegSE == \* SE*2*1~
  <<"S", "E", "*", "2", "*", "1", "~">>
SegSE3 == \* SE*3*1~
  <<"S", "E", "*", "3", "*", "1", "~">>
SegSEx == \* SE*2*2~
  <<"S", "E", "*", "2", "*", "2", "~">>
SegGE == \* GE*1*1~ ~
  <<"G", "E", "*", "1", "*", "1", "~", " ", "~">>
SegGEx == \* GE*1*2~
  <<"G", "E", "*", "1", "*", "2", "~">>
SegIEA == \* IEA*1*000000001~\n
  <<"I", "E", "A", "*", "1", "*", "0", "0", "0", "0", "0", "0", "0", "0", "1", "~", "\n">>
SegIEAx == \* IEA*1*000000002~
  <<"I", "E", "A", "*", "1", "*", "0", "0", "0", "0", "0", "0", "0", "0", "2", "~">>
SegIEA2 == \* IEA*2*000000001~
  <<"I", "E", "A", "*", "2", "*", "0", "0", "0", "0", "0", "0", "0", "0", "1", "~">>
SegPartial == \* SE*2
  <<"S", "E", "*", "2">>

Segs == {IsaText, SegGS, SegST, SegREF, SegSE, SegSE3, SegSEx, SegGE, SegGEx,
         SegIEA, SegIEAx, SegPartial}

\* The pieces that may follow MaxSegs pieces: the closings of an interchange.
Closings == {SegIEA, SegIEA2}

\* The openings: long ones, which more text may follow, and whole short files.
LongOpenings == {IsaText, NotIsaText, IsaTextEarly}

ShortFiles == {<<>>, SegST, SubSeq(IsaText, 1, 20)}

\* What follows the segment at which a run has failed: nothing, or more text.
Tails == {<<>>, SegSE}

\* ---------------------------------------------------------------- state

VARIABLES
  stream,      \* the decoded text of the file, as far as it is determined
  closed,      \* whether the file ends where stream ends
  nsegs,       \* the pieces of Segs in stream
  offset,      \* the read offset of text_stream in stream
  pc,          \* where the caller and parse_file are
  run,         \* 1: the first parser; 2: a second parser, same file;
               \* 3: the second parser again, same file
  chunk_size,  \* self.chunk_size
  text_buffer, \* self.text_buffer
  current_interchange,       \* self.current_interchange: <<>> or <<object>>
  current_functional_group,  \* self.current_functional_group: 0 or a ref
  current_transaction_set,   \* self.current_transaction_set
  interchanges,              \* self.interchanges
  fgs,         \* the X12FunctionalGroup objects created, by reference
  delimiters,  \* parse_file's element_separator, component_separator and
               \* segment_terminator: <<>> before they are assigned
  error,       \* the exception parse_file ended with, or NoError
  returned,    \* <<>>, or <<the list parse_file returned>>
  dispatched,  \* the segments passed to _process_segment in this run
  reads,       \* the calls of text_stream.read in this run
  first,       \* the outcome of the run before, once another has begun
  binary_file, \* the first bytes of the file _detect_encoding is given
  byteorder,   \* sys.byteorder, which codecs.BOM_UTF16 and BOM_UTF32 follow
  detected     \* <<>>, or <<what _detect_encoding returned>>

vars == <<stream, closed, nsegs, offset, pc, run, chunk_size, text_buffer,
          current_interchange, current_functional_group,
          current_transaction_set, interchanges, fgs, delimiters, error,
          returned, dispatched, reads, first, binary_file, byteorder,
          detected>>

\* The detector of the encoding works on the bytes of the file, before any
\* text is read: it has a specification of its own, SpecEncoding, and the
\* files of Spec have no byte order mark.
encodingVars == <<binary_file, byteorder, detected>>

fileVars == <<stream, closed, nsegs>>

parserVars == <<text_buffer, current_interchange, current_functional_group,
                current_transaction_set, interchanges, fgs>>

runVars == <<delimiters, error, returned, dispatched, reads>>

ISA_SEGMENT_LENGTH == 106

\* The default of __init__'s chunk_size.
DefaultChunkSize == 8192

\* The chunk sizes the first parser is constructed with, and the second.
ChunkSizes == {-1, 0, 1}

SecondChunkSizes == {50, DefaultChunkSize}

ParserState ==
  [current_interchange      |-> current_interchange,
   current_functional_group |-> current_functional_group,
   current_transaction_set  |-> current_transaction_set,
   interchanges             |-> interchanges,
   fgs                      |-> fgs]

\* The list parse_file returns, each interchange with the functional groups
\* its list refers to.
Result(s) ==
  [i \in 1..Len(s.interchanges) |->
     [s.interchanges[i] EXCEPT
        !.functional_groups = [k \in 1..Len(@) |-> s.fgs[@[k]]]]]

\* What is left of the stream to read.
Remaining == Len(stream) - offset

Min(a, b) == IF a <= b THEN a ELSE b

\* text_stream.read(size): the next size characters, fewer at the end of the
\* file, all of them for a negative size.
ReadText(size) ==
  SubSeq(stream, offset + 1,
         offset + (IF size < 0 THEN Remaining ELSE Min(size, Remaining)))

\* What read(chunk_size) returns is determined: the file ends here, or it
\* holds chunk_size more characters.
CanRead == closed \/ Remaining >= chunk_size

\* reset without its first assignment: the buffer is kept.
Reset_KeepsBuffer ==
  /\ text_buffer' = text_buffer
  /\ current_interchange' = <<>>
  /\ current_functional_group' = 0
  /\ current_transaction_set' = <<>>
  /\ interchanges' = <<>>
  /\ fgs' = <<>>

\* X12Parser.reset
Reset ==
  /\ text_buffer' = <<>>
  /\ current_interchange' = <<>>
  /\ current_functional_group' = 0
  /\ current_transaction_set' = <<>>
  /\ interchanges' = <<>>
  /\ fgs' = <<>>

\* No parser is constructed and no file is read yet.
Idle ==
  /\ stream = <<>>
  /\ closed = FALSE
  /\ nsegs = 0
  /\ offset = 0
  /\ pc = "start"
  /\ run = 1
  /\ chunk_size = DefaultChunkSize
  /\ text_buffer = <<>>
  /\ current_interchange = <<>>
  /\ current_functional_group = 0
  /\ current_transaction_set = <<>>
  /\ interchanges = <<>>
  /\ fgs = <<>>
  /\ delimiters = <<>>
  /\ error = NoError
  /\ returned = <<>>
  /\ dispatched = <<>>
  /\ reads = 0
  /\ first = <<>>

Init ==
  /\ Idle
  /\ binary_file = <<>>
  /\ byteorder = "little"
  /\ detected = <<>>

\* ------------------------------------------------------------- the file

\* _process_chunk on the parser as it is
Chunk == ProcessChunk(text_buffer, ParserState, delimiters[1])

\* if not self.text_buffer or self.text_buffer[-1] != segment_terminator
ReadsMore(buffer) ==
  IF buffer = <<>> THEN TRUE
  ELSE buffer[Len(buffer)] # delimiters[1].segment_terminator

\* parse_file is about to read, and the file does not yet say what it reads.
Undetermined ==
  /\ ~closed
  /\ Remaining < chunk_size
  /\ IF pc = "isa" THEN Len(text_buffer) < ISA_SEGMENT_LENGTH
     ELSE IF pc = "loop"
     THEN Chunk.error = NoError /\ ReadsMore(Chunk.text_buffer)
     ELSE FALSE

\* The file begins with a long opening.
Opening(text) ==
  /\ Undetermined
  /\ stream = <<>>
  /\ stream' = text
  /\ UNCHANGED <<closed, nsegs, offset, pc, run, chunk_size, first>>
  /\ UNCHANGED <<parserVars, runVars>>
  /\ UNCHANGED encodingVars

\* The file is a short one.
ShortFile(text) ==
  /\ Undetermined
  /\ stream = <<>>
  /\ stream' = text
  /\ closed' = TRUE
  /\ UNCHANGED <<nsegs, offset, pc, run, chunk_size, first>>
  /\ UNCHANGED <<parserVars, runVars>>
  /\ UNCHANGED encodingVars

\* The file goes on with one more piece of text.
Goes(text) ==
  /\ Undetermined
  /\ stream # <<>>
  /\ IF nsegs < MaxSegs THEN text \in Segs
     ELSE nsegs = MaxSegs /\ text \in Closings
  /\ stream' = stream \o text
  /\ nsegs' = nsegs + 1
  /\ UNCHANGED <<closed, offset, pc, run, chunk_size, first>>
  /\ UNCHANGED <<parserVars, runVars>>
  /\ UNCHANGED encodingVars

\* The file ends.
Ends ==
  /\ Undetermined
  /\ stream # <<>>
  /\ closed' = TRUE
  /\ UNCHANGED <<stream, nsegs, offset, pc, run, chunk_size, first>>
  /\ UNCHANGED <<parserVars, runVars>>
  /\ UNCHANGED encodingVars

\* ------------------------------------------------------------ the parser

\* X12Parser.__init__(chunk_size): a negative chunk_size raises, any other is
\* kept, and the state is reset.
Construct(size) ==
  /\ pc = "start"
  /\ IF size < 0
     THEN /\ pc' = "rejected"
          /\ UNCHANGED <<chunk_size, parserVars>>
     ELSE /\ chunk_size' = size
          /\ Reset
          /\ pc' = "ready"
  /\ UNCHANGED <<fileVars, offset, run, runVars, first>>
  /\ UNCHANGED encodingVars

\* What a run that has ended leaves: the chunk size it had, the error
\* parse_file raised or the list it returned, and the fields of the parser.
Outcome ==
  [chunk_size |-> chunk_size, error |-> error, returned |-> returned,
   text_buffer |-> text_buffer, state |-> ParserState]

\* The first run has ended and its outcome is kept in first; a second parser
\* is constructed, to parse the same file with another chunk_size.  The file
\* ends where the first run left it, or after the text that follows there.
ConstructSecond(size, text) ==
  /\ pc \in {"done", "failed"}
  /\ run = 1
  /\ closed \/ text = <<>> \/ stream # <<>>
  /\ first' = <<Outcome>>
  /\ run' = 2
  /\ stream' = IF closed THEN stream ELSE stream \o text
  /\ closed' = TRUE
  /\ chunk_size' = size
  /\ Reset
  /\ delimiters' = <<>>
  /\ error' = NoError
  /\ returned' = <<>>
  /\ dispatched' = <<>>
  /\ reads' = 0
  /\ offset' = 0
  /\ pc' = "ready"
  /\ UNCHANGED nsegs
  /\ UNCHANGED encodingVars

\* parse_file, to the call of _read_isa_segment: the state is reset and the
\* file is opened.
EntersParseFile ==
  /\ Reset
  /\ offset' = 0
  /\ delimiters' = <<>>
  /\ error' = NoError
  /\ returned' = <<>>
  /\ dispatched' = <<>>
  /\ reads' = 0
  /\ pc' = "isa"

\* parse_file is called on a parser just constructed.
ParseFile ==
  /\ pc = "ready"
  /\ EntersParseFile
  /\ UNCHANGED <<fileVars, run, chunk_size, first>>
  /\ UNCHANGED encodingVars

\* parse_file is called again on the second parser, the one with the default
\* chunk size, as its run left it, for the same file; the outcome of that run
\* is kept in first.
ParseFileAgain ==
  /\ pc \in {"done", "failed"}
  /\ run = 2
  /\ chunk_size = DefaultChunkSize
  /\ first' = <<Outcome>>
  /\ run' = 3
  /\ EntersParseFile
  /\ UNCHANGED <<fileVars, chunk_size>>
  /\ UNCHANGED encodingVars

\* An empty chunk is taken for text.
Exhausted_Never(chunk) == FALSE

\* if not next_chunk, if not chunk: read returned nothing, the file is
\* exhausted
Exhausted(chunk) == chunk = <<>>

\* _read_isa_segment, one turn of its loop: a chunk is read and appended to
\* the buffer; an empty chunk raises.
ReadIsaChunk ==
  /\ pc = "isa"
  /\ Len(text_buffer) < ISA_SEGMENT_LENGTH
  /\ CanRead
  /\ reads' = reads + 1
  /\ LET next_chunk == ReadText(chunk_size)
     IN  IF Exhausted(next_chunk)
         THEN /\ error' = "IncompleteISA"
              /\ pc' = "failed"
              /\ UNCHANGED <<text_buffer, offset>>
         ELSE /\ text_buffer' = text_buffer \o next_chunk
              /\ offset' = offset + Len(next_chunk)
              /\ UNCHANGED <<error, pc>>
  /\ UNCHANGED <<fileVars, run, chunk_size, first, delimiters, returned,
                 dispatched, current_interchange, current_functional_group,
                 current_transaction_set, interchanges, fgs>>
  /\ UNCHANGED encodingVars

\* all([element_separator, component_separator, segment_terminator])
AllSeparators(text) == text[4] # "" /\ text[105] # "" /\ text[106] # ""

\* The checks after the loop without the one of the opening tag.
IsaSegmentError_NoTag(text) ==
  IF ~AllSeparators(text) THEN "NoSeparators" ELSE NoError

\* The checks of _read_isa_segment after its loop: the error raised, or
\* NoError.
IsaSegmentError(text) ==
  IF ~StartsWith(text, ISA) THEN "MissingISA"
  ELSE IF ~AllSeparators(text) THEN "NoSeparators"
  ELSE NoError

\* The separators read one character too early.
Separators_Shifted(text) ==
  [element_separator   |-> text[2 + 1],
   component_separator |-> text[103 + 1],
   segment_terminator  |-> text[104 + 1]]

\* The separators are the characters 3, 104 and 105 of the buffer (from 0).
Separators(text) ==
  [element_separator   |-> text[3 + 1],
   component_separator |-> text[104 + 1],
   segment_terminator  |-> text[105 + 1]]

\* _read_isa_segment, after its loop: the buffer must start with ISA, and
\* the separators are taken from it; the buffer is left as it is.
ReadIsaSegment ==
  /\ pc = "isa"
  /\ Len(text_buffer) >= ISA_SEGMENT_LENGTH
  /\ IF IsaSegmentError(text_buffer) # NoError
     THEN /\ error' = IsaSegmentError(text_buffer)
          /\ pc' = "failed"
          /\ UNCHANGED delimiters
     ELSE /\ delimiters' = <<Separators(text_buffer)>>
          /\ pc' = "loop"
          /\ UNCHANGED error
  /\ UNCHANGED <<fileVars, offset, run, chunk_size, first, parserVars,
                 returned, dispatched, reads>>
  /\ UNCHANGED encodingVars

\* The errors of _validate_final_state.
UnclosedErrors == {"UnclosedTransactionSet", "UnclosedFunctionalGroup",
                   "UnclosedInterchange"}

\* _validate_final_state without its check of the functional group.
ValidateFinalState_NoGroup(s) ==
  IF s.current_transaction_set # <<>> THEN "UnclosedTransactionSet"
  ELSE IF s.current_interchange # <<>> THEN "UnclosedInterchange"
  ELSE NoError

\* X12Parser._validate_final_state: the error it raises, or NoError
ValidateFinalState(s) ==
  IF s.current_transaction_set # <<>> THEN "UnclosedTransactionSet"
  ELSE IF s.current_functional_group # 0 THEN "UnclosedFunctionalGroup"
  ELSE IF s.current_interchange # <<>> THEN "UnclosedInterchange"
  ELSE NoError

\* self.text_buffer += chunk
BufferAfterRead(buffer, chunk) == buffer \o chunk

\* The buffer at the end of the file, not stripped.
LeftOver_NoStrip(buffer) == buffer

\* self.text_buffer.strip(), of the buffer at the end of the file
LeftOver(buffer) == Strip(buffer)

\* The parser's fields after _process_chunk.
Processed(r) ==
  /\ current_interchange' = r.state.current_interchange
  /\ current_functional_group' = r.state.current_functional_group
  /\ current_transaction_set' = r.state.current_transaction_set
  /\ interchanges' = r.state.interchanges
  /\ fgs' = r.state.fgs
  /\ dispatched' = dispatched \o r.handed

\* parse_file, one turn of its while True loop: _process_chunk, whose error
\* ends the run; then, unless the buffer ends with the terminator, a read.
\* A chunk is appended to the buffer.  An empty chunk ends the loop: text
\* left in the buffer raises, and otherwise _validate_final_state raises or
\* the interchanges are returned.
ParseLoop ==
  /\ pc = "loop"
  /\ LET r == Chunk
     IN  /\ Processed(r)
         /\ IF r.error # NoError
            THEN /\ error' = r.error
                 /\ pc' = "failed"
                 /\ text_buffer' = r.text_buffer
                 /\ UNCHANGED <<offset, reads, returned>>
            ELSE IF ~ReadsMore(r.text_buffer)
            THEN /\ text_buffer' = r.text_buffer
                 /\ UNCHANGED <<offset, reads, returned, error, pc>>
            ELSE
              LET chunk == ReadText(chunk_size)
                  unclosed == ValidateFinalState(r.state)
              IN  /\ CanRead
                  /\ reads' = reads + 1
                  /\ offset' = offset + Len(chunk)
                  /\ IF ~Exhausted(chunk)
                     THEN /\ text_buffer' = BufferAfterRead(r.text_buffer, chunk)
                          /\ UNCHANGED <<returned, error, pc>>
                     ELSE /\ text_buffer' = r.text_buffer
                          /\ IF LeftOver(r.text_buffer) # <<>>
                             THEN /\ error' = "IncompleteSegment"
                                  /\ pc' = "failed"
                                  /\ UNCHANGED returned
                             ELSE IF unclosed # NoError
                             THEN /\ error' = unclosed
                                  /\ pc' = "failed"
                                  /\ UNCHANGED returned
                             ELSE /\ returned' = <<Result(r.state)>>
                                  /\ pc' = "done"
                                  /\ UNCHANGED error
  /\ UNCHANGED <<fileVars, run, chunk_size, first, delimiters>>
  /\ UNCHANGED encodingVars

Next ==
  \/ \E size \in ChunkSizes : Construct(size)
  \/ ParseFile
  \/ ParseFileAgain
  \/ \E text \in LongOpenings : Opening(text)
  \/ \E text \in ShortFiles : ShortFile(text)
  \/ \E text \in Segs \cup Closings : Goes(text)
  \/ Ends
  \/ ReadIsaChunk
  \/ ReadIsaSegment
  \/ ParseLoop
  \/ \E size \in SecondChunkSizes, text \in Tails : ConstructSecond(size, text)

Spec == Init /\ [][Next]_vars

\* ------------------------------------------------- the encoding detector

\* The longest file given to the detector, in bytes.
MaxFileBytes == 4

\* The bytes of the files: those of the byte order marks, and the letter I.
FileBytes == {0, 73, 187, 191, 239, 254, 255}

BinaryFiles == UNION {[1..n -> FileBytes] : n \in 0..MaxFileBytes}

\* The byte order marks of the module codecs.
BOM_UTF8 == <<239, 187, 191>>
BOM_UTF16_LE == <<255, 254>>
BOM_UTF16_BE == <<254, 255>>
BOM_UTF32_LE == <<255, 254, 0, 0>>
BOM_UTF32_BE == <<0, 0, 254, 255>>
BOM_UTF16 == IF byteorder = "little" THEN BOM_UTF16_LE ELSE BOM_UTF16_BE
BOM_UTF32 == IF byteorder = "little" THEN BOM_UTF32_LE ELSE BOM_UTF32_BE

\* The default of __init__'s encoding, kept in self.encoding.
DefaultEncoding == "ascii"

Detected(encoding, skip_bytes) ==
  [encoding |-> encoding, skip_bytes |-> skip_bytes]

\* X12Parser._detect_encoding, from the bytes of the file: the first four
\* are read and compared with the byte order marks, in this order.
DetectEncoding(file) ==
  LET start_bytes == Slice(file, 0, Min(4, Len(file)))
  IN  IF StartsWith(start_bytes, BOM_UTF8) THEN Detected("utf-8-sig", 3)
      ELSE IF StartsWith(start_bytes, BOM_UTF16_LE) THEN Detected("utf-16le", 2)
      ELSE IF StartsWith(start_bytes, BOM_UTF16_BE) THEN Detected("utf-16be", 2)
      ELSE IF StartsWith(start_bytes, BOM_UTF16) THEN Detected("utf-16", 2)
      ELSE IF StartsWith(start_bytes, BOM_UTF32_LE) THEN Detected("utf-32le", 4)
      ELSE IF StartsWith(start_bytes, BOM_UTF32_BE) THEN Detected("utf-32be", 4)
      ELSE IF StartsWith(start_bytes, BOM_UTF32) THEN Detected("utf-32", 4)
      ELSE Detected(DefaultEncoding, 0)

\* A file of a few bytes, on a machine of either byte order.
InitEncoding ==
  /\ Idle
  /\ binary_file \in BinaryFiles
  /\ byteorder \in {"little", "big"}
  /\ detected = <<>>

\* parse_file calls _detect_encoding on the file it opened.
CallDetectEncoding ==
  /\ detected = <<>>
  /\ detected' = <<DetectEncoding(binary_file)>>
  /\ UNCHANGED <<binary_file, byteorder>>
  /\ UNCHANGED <<fileVars, offset, pc, run, chunk_size, first, parserVars,
                 runVars>>

NextEncoding == CallDetectEncoding

SpecEncoding == InitEncoding /\ [][NextEncoding]_vars

\* ------------------------------------------------ the loops of parse_file

\* The loops of parse_file, _read_isa_segment and _process_chunk taken one
\* turn at a time, on a file that is all there, with the state machine left
\* out: _process_segment returns or raises, _validate_final_state too.

LoopChunkSizes == {1, 50, DefaultChunkSize}

LoopSegs == {SegGS, SegREF, SegGE, SegIEA, SegPartial}

LoopFiles ==
  ShortFiles \cup {NotIsaText}
    \cup {IsaText \o a \o b : a \in LoopSegs, b \in LoopSegs}

\* parse_file has reset the parser and calls _read_isa_segment.
InitLoops ==
  /\ stream \in LoopFiles
  /\ closed = TRUE
  /\ nsegs = 0
  /\ offset = 0
  /\ pc = "isa"
  /\ run = 1
  /\ chunk_size \in LoopChunkSizes
  /\ text_buffer = <<>>
  /\ current_interchange = <<>>
  /\ current_functional_group = 0
  /\ current_transaction_set = <<>>
  /\ interchanges = <<>>
  /\ fgs = <<>>
  /\ delimiters = <<>>
  /\ error = NoError
  /\ returned = <<>>
  /\ dispatched = <<>>
  /\ reads = 0
  /\ first = <<>>
  /\ binary_file = <<>>
  /\ byteorder = "little"
  /\ detected = <<>>

\* _process_chunk, one turn of its loop: without a terminator in the buffer
\* the loop ends; else the buffer is cut after the first one and the slice
\* before it, unless empty, goes to _process_segment, which returns or
\* raises.
ProcessChunkTurn ==
  /\ pc = "loop"
  /\ LET terminator_pos == Find(text_buffer, delimiters[1].segment_terminator)
         segment_str == SegmentStr(text_buffer, terminator_pos)
     IN  IF text_buffer = <<>> \/ terminator_pos = -1
         THEN /\ pc' = "read"
              /\ UNCHANGED <<text_buffer, dispatched, error>>
         ELSE /\ text_buffer' = AfterTerminator(text_buffer, terminator_pos)
              /\ IF EmptySegment(segment_str)
                 THEN UNCHANGED <<pc, dispatched, error>>
                 ELSE /\ dispatched' = Append(dispatched, segment_str)
                      /\ \E raises \in BOOLEAN :
                           IF raises
                           THEN error' = "SegmentError" /\ pc' = "failed"
                           ELSE UNCHANGED <<pc, error>>
  /\ UNCHANGED <<fileVars, offset, run, chunk_size, first, delimiters,
                 returned, reads, current_interchange,
                 current_functional_group, current_transaction_set,
                 interchanges, fgs>>
  /\ UNCHANGED encodingVars

\* parse_file, the rest of a turn of its while True loop, after
\* _process_chunk has returned: unless the buffer ends with the terminator, a
\* read; an empty chunk ends the loop, and then text left in the buffer
\* raises, and otherwise _validate_final_state returns or raises.
ReadChunk ==
  /\ pc = "read"
  /\ IF ~ReadsMore(text_buffer)
     THEN /\ pc' = "loop"
          /\ UNCHANGED <<text_buffer, offset, reads, error, returned>>
     ELSE
       LET chunk == ReadText(chunk_size)
       IN  /\ reads' = reads + 1
           /\ offset' = offset + Len(chunk)
           /\ IF ~Exhausted(chunk)
              THEN /\ text_buffer' = BufferAfterRead(text_buffer, chunk)
                   /\ pc' = "loop"
                   /\ UNCHANGED <<error, returned>>
              ELSE /\ UNCHANGED text_buffer
                   /\ IF LeftOver(text_buffer) # <<>>
                      THEN /\ error' = "IncompleteSegment"
                           /\ pc' = "failed"
                           /\ UNCHANGED returned
                      ELSE \E unclosed \in UnclosedErrors \cup {NoError} :
                             /\ error' = unclosed
                             /\ IF unclosed = NoError
                                THEN pc' = "done" /\ returned' = <<interchanges>>
                                ELSE pc' = "failed" /\ UNCHANGED returned
  /\ UNCHANGED <<fileVars, run, chunk_size, first, delimiters, dispatched,
                 current_interchange, current_functional_group,
                 current_transaction_set, interchanges, fgs>>
  /\ UNCHANGED encodingVars

NextLoops ==
  \/ ReadIsaChunk
  \/ ReadIsaSegment
  \/ ProcessChunkTurn
  \/ ReadChunk

\* parse_file runs on once it is called: no turn of a loop waits.
SpecLoops == InitLoops /\ [][NextLoops]_vars /\ WF_vars(NextLoops)

\* ------------------------------------------- concatenated interchanges

\* parse_file on a file of two interchanges, the second with an ISA that
\* declares the separators of the first, or another component separator,
\* segment terminator or element separator at the fixed offsets.

ConcatenatedChunkSizes == {1, 50, DefaultChunkSize}

\* The segments of an interchange after its ISA.
InterchangeBody == SegGS \o SegST \o SegSE \o SegGE \o SegIEA

SecondIsaTexts ==
  {IsaText,
   [IsaText EXCEPT ![105] = ">"],
   [IsaText EXCEPT ![106] = "|"],
   [IsaText EXCEPT ![4] = "|"]}

ConcatenatedFiles ==
  {IsaText \o InterchangeBody \o isa \o InterchangeBody :
     isa \in SecondIsaTexts}

\* A parser is constructed with a positive chunk size, and the file is
\* there.
InitConcatenated ==
  /\ stream \in ConcatenatedFiles
  /\ closed = TRUE
  /\ nsegs = 0
  /\ offset = 0
  /\ pc = "ready"
  /\ run = 1
  /\ chunk_size \in ConcatenatedChunkSizes
  /\ text_buffer = <<>>
  /\ current_interchange = <<>>
  /\ current_functional_group = 0
  /\ current_transaction_set = <<>>
  /\ interchanges = <<>>
  /\ fgs = <<>>
  /\ delimiters = <<>>
  /\ error = NoError
  /\ returned = <<>>
  /\ dispatched = <<>>
  /\ reads = 0
  /\ first = <<>>
  /\ binary_file = <<>>
  /\ byteorder = "little"
  /\ detected = <<>>

NextConcatenated ==
  \/ ParseFile
  \/ ReadIsaChunk
  \/ ReadIsaSegment
  \/ ParseLoop

SpecConcatenated == InitConcatenated /\ [][NextConcatenated]_vars

\* ---------------------------------------------------------- properties

\* The errors of _read_isa_segment, and those of the end of the file.
IsaErrors == {"IncompleteISA", "MissingISA", "NoSeparators"}

Ended == pc \in {"done", "failed"}

\* x without its leading and trailing whitespace.
RECURSIVE Trim(_)
Trim(x) ==
  IF x = <<>> THEN x
  ELSE IF Head(x) \in Whitespace THEN Trim(Tail(x))
  ELSE IF x[Len(x)] \in Whitespace THEN Trim(SubSeq(x, 1, Len(x) - 1))
  ELSE x

\* The pieces of text, from start on, that end with the terminator t,
\* trimmed, without the empty ones, in order.
RECURSIVE Scan(_, _, _)
Scan(text, t, start) ==
  LET ends == {i \in start..Len(text) : text[i] = t}
  IN  IF ends = {} THEN <<>>
      ELSE LET end == MinOf(ends)
               piece == Trim(SubSeq(text, start, end - 1))
           IN  (IF piece = <<>> THEN <<>> ELSE <<piece>>)
                 \o Scan(text, t, end + 1)

SegmentsOf(text, t) == Scan(text, t, 1)

\* The state of a parser after reset.
ResetState ==
  [current_interchange      |-> <<>>,
   current_functional_group |-> 0,
   current_transaction_set  |-> <<>>,
   interchanges             |-> <<>>,
   fgs                      |-> <<>>]

\* The outcomes (state left, error raised) of the segments segs, each passed
\* in turn to _process_segment, the first one in the reset state.
RECURSIVE Outcomes(_, _)
Outcomes(segs, d) ==
  IF segs = <<>> THEN <<>>
  ELSE LET prior == Outcomes(SubSeq(segs, 1, Len(segs) - 1), d)
           before == IF prior = <<>> THEN ResetState
                     ELSE prior[Len(prior)].state
           elements == Split(segs[Len(segs)], d.element_separator)
       IN  Append(prior,
                  ProcessSegment(before, elements[1], elements,
                                 d.element_separator, d.component_separator,
                                 d.segment_terminator))

\* The outcomes of the segments dispatched in this run.
Replayed == Outcomes(dispatched, delimiters[1])

\* The state in which the k-th segment was received, and the state after
\* the last one.
StateBefore(o, k) == IF k = 1 THEN ResetState ELSE o[k - 1].state

StateAfter(o) == IF o = <<>> THEN ResetState ELSE o[Len(o)].state

ElementsOf(k) == Split(dispatched[k], delimiters[1].element_separator)

\* The segments whose processing raised.
Failures(o) == {k \in 1..Len(o) : o[k].error # NoError}

\* Only the last dispatched segment may have failed, and then the run has
\* failed and returned nothing.
FailsAt(k) == k = Len(dispatched) /\ pc = "failed" /\ returned = <<>>

Occupied(s) ==
  \/ s.current_transaction_set # <<>>
  \/ s.current_functional_group # 0
  \/ s.current_interchange # <<>>

\* C1: the second parser, with another chunk size (50, or 8192, which is more
\* than the whole file), ends as the first one (chunk size 1) did on the same
\* file: both fail, or both return the same list of interchanges.
C1_ChunkSizeInvariance ==
  (run = 2 /\ Ended /\ first[1].chunk_size > 0) =>
     /\ (error = NoError) <=> (first[1].error = NoError)
     /\ returned = first[1].returned

C1_Witness ==
  /\ run = 2 /\ pc = "done" /\ chunk_size = DefaultChunkSize
  /\ first[1].chunk_size = 1
  /\ Len(returned[1]) = 1
  /\ Len(stream) < chunk_size

\* C2: the segments passed to _process_segment are the pieces of the text
\* consumed so far that end with the terminator, trimmed, without the empty
\* ones, in order, and the buffer is the text read and not yet consumed; when
\* the tokenizer has reached the end of the file, they are those of the file.
C2_SegmentsAreThePieces ==
  delimiters # <<>> =>
    LET t == delimiters[1].segment_terminator
        consumed == offset - Len(text_buffer)
    IN  /\ consumed >= 0
        /\ text_buffer = SubSeq(stream, consumed + 1, offset)
        /\ dispatched = SegmentsOf(SubSeq(stream, 1, consumed), t)
        /\ (pc = "done" \/ error \in UnclosedErrors \cup {"IncompleteSegment"})
             => dispatched = SegmentsOf(stream, t)

C2_Witness ==
  /\ run = 1 /\ chunk_size = 1 /\ pc = "done"
  /\ Len(dispatched) = 6
  /\ ElementsOf(6)[1] = IEA
  /\ \E i \in 2..Len(stream) : stream[i - 1] = "~" /\ stream[i] = " "

\* The nesting of the dispatched segments: the state reached from state by
\* the segment code id, "bad" when the code is out of place.  "I0" and "I1"
\* are an open interchange without and with a closed group, "G0" and "G1" an
\* open group without and with a closed transaction set, "T" an open
\* transaction set.
NestingStep(state, id) ==
  IF id = ISA THEN (IF state = "none" THEN "I0" ELSE "bad")
  ELSE IF id = GS THEN (IF state \in {"I0", "I1"} THEN "G0" ELSE "bad")
  ELSE IF id = ST THEN (IF state \in {"G0", "G1"} THEN "T" ELSE "bad")
  ELSE IF id = SE THEN (IF state = "T" THEN "G1" ELSE "bad")
  ELSE IF id = GE THEN (IF state = "G1" THEN "I1" ELSE "bad")
  ELSE IF id = IEA THEN (IF state = "I1" THEN "none" ELSE "bad")
  ELSE IF state = "T" THEN "T" ELSE "bad"

RECURSIVE Nesting(_)
Nesting(k) ==
  IF k = 0 THEN "none" ELSE NestingStep(Nesting(k - 1), ElementsOf(k)[1])

\* C3: when parse_file returns, the dispatched segments are properly nested:
\* ISA ... IEA blocks of one or more GS ... GE blocks of one or more
\* ST ... SE blocks, data segments only between ST and SE.
C3_ProperlyNested ==
  pc = "done" => Nesting(Len(dispatched)) = "none"

\* The counts that the k-th dispatched segment, a closing one received in
\* state s, declares and closes.
DeclaresCount(s, k) ==
  LET elements == ElementsOf(k)
      id == elements[1]
  IN  IF Len(elements) # 3 THEN <<>>
      ELSE IF id = SE /\ s.current_transaction_set # <<>>
      THEN <<IntOf(<<elements[2]>>),
             Len(s.current_transaction_set[1].segments) + 1>>
      ELSE IF id = GE /\ s.current_functional_group # 0
      THEN <<IntOf(<<elements[2]>>),
             Len(s.fgs[s.current_functional_group].transaction_sets)>>
      ELSE IF id = IEA /\ s.current_interchange # <<>>
      THEN <<IntOf(<<elements[2]>>),
             Len(s.current_interchange[1].functional_groups)>>
      ELSE <<>>

CountsReproduced(result) ==
  \A i \in 1..Len(result) :
    LET ic == result[i]
    IN  /\ ic.iea_segment # <<>>
        /\ IntOf(GetElement(ic.iea_segment[1], 1))
             = <<Len(ic.functional_groups)>>
        /\ \A g \in 1..Len(ic.functional_groups) :
             LET fg == ic.functional_groups[g]
             IN  /\ fg.ge_segment # <<>> =>
                      IntOf(GetElement(fg.ge_segment[1], 1))
                        = <<Len(fg.transaction_sets)>>
                 /\ \A n \in 1..Len(fg.transaction_sets) :
                      LET ts == fg.transaction_sets[n]
                          se == ts.segments[Len(ts.segments)]
                      IN  /\ se.segment_id = SE
                          /\ IntOf(GetElement(se, 1)) = <<Len(ts.segments)>>

\* C4: the list returned reproduces every declared count (SE: segments of
\* the transaction set, GE: transaction sets of the group, IEA: groups of the
\* interchange), and an SE, GE or IEA that declares another count than the
\* actual one when it is received fails the run, which returns nothing.
C4_DeclaredCounts ==
  /\ pc = "done" => CountsReproduced(returned[1])
  /\ delimiters # <<>> =>
       LET o == Replayed
       IN  \A k \in 1..Len(dispatched) :
             LET c == DeclaresCount(StateBefore(o, k), k)
             IN  (c # <<>> /\ c[1] # <<c[2]>>) => FailsAt(k)

C4_Witness ==
  /\ pc = "done"
  /\ Nesting(Len(dispatched)) = "none"
  /\ Len(returned[1]) = 1
  /\ Len(returned[1][1].functional_groups) = 1
  /\ Len(returned[1][1].functional_groups[1].transaction_sets) = 1
  /\ Len(returned[1][1].functional_groups[1].transaction_sets[1].segments) = 2

\* The control numbers of the k-th dispatched segment, a closing one received
\* in state s, and of the entity it closes.
ClosesControlNumber(s, k) ==
  LET elements == ElementsOf(k)
      id == elements[1]
  IN  IF Len(elements) # 3 THEN <<>>
      ELSE IF id = SE /\ s.current_transaction_set # <<>>
      THEN <<elements[3], s.current_transaction_set[1].control_number>>
      ELSE IF id = GE /\ s.current_functional_group # 0
      THEN <<elements[3], s.fgs[s.current_functional_group].control_number>>
      ELSE IF id = IEA /\ s.current_interchange # <<>>
      THEN <<elements[3], s.current_interchange[1].control_number>>
      ELSE <<>>

ControlNumbersMatch(result) ==
  \A i \in 1..Len(result) :
    LET ic == result[i]
    IN  /\ ic.iea_segment # <<>> /\ ic.isa_segment # <<>>
        /\ GetElement(ic.iea_segment[1], 2) = GetElement(ic.isa_segment[1], 13)
        /\ \A g \in 1..Len(ic.functional_groups) :
             LET fg == ic.functional_groups[g]
             IN  /\ fg.ge_segment # <<>> =>
                      GetElement(fg.ge_segment[1], 2)
                        = GetElement(fg.gs_segment[1], 6)
                 /\ \A n \in 1..Len(fg.transaction_sets) :
                      LET ts == fg.transaction_sets[n]
                      IN  /\ ts.segments[1].segment_id = ST
                          /\ GetElement(ts.segments[Len(ts.segments)], 2)
                               = GetElement(ts.segments[1], 2)

\* C5: in the list returned, the control number of each IEA is that of its
\* ISA, of each GE that of its GS, of each SE that of its ST; and a closing
\* segment whose control number is not that of the open entity of its level
\* fails the run.
C5_ControlNumbers ==
  /\ pc = "done" => ControlNumbersMatch(returned[1])
  /\ delimiters # <<>> =>
       LET o == Replayed
       IN  \A k \in 1..Len(dispatched) :
             LET c == ClosesControlNumber(StateBefore(o, k), k)
             IN  (c # <<>> /\ c[1] # c[2]) => FailsAt(k)

C5_Witness ==
  /\ pc = "done"
  /\ Len(dispatched) = 6
  /\ ElementsOf(5)[1] = GE /\ ElementsOf(6)[1] = IEA
  /\ returned[1][1].functional_groups[1].ge_segment # <<>>
  /\ returned[1][1].functional_groups[1].transaction_sets # <<>>

\* The run has ended in the tokenizer loop with every dispatched segment
\* accepted: it has reached the end of the file.
AtEndOfStream == Ended /\ delimiters # <<>> /\ Failures(Replayed) = {}

\* C6: at the end of the stream, the run fails with an unclosed-envelope
\* error when a transaction set, a functional group or an interchange is
\* open, and returns the interchanges when none is; it never returns with
\* one open.
C6_UnclosedEnvelope ==
  /\ pc = "done" => ~Occupied(ParserState) /\ returned # <<>>
  /\ (AtEndOfStream /\ Trim(text_buffer) = <<>>) =>
       IF Occupied(StateAfter(Replayed))
       THEN pc = "failed" /\ error \in UnclosedErrors /\ returned = <<>>
       ELSE pc = "done" /\ error = NoError

C6_Witness ==
  /\ pc = "failed"
  /\ error = "UnclosedFunctionalGroup"
  /\ current_interchange = <<>>
  /\ interchanges # <<>>

\* C7: a segment whose processing fails is the last one dispatched, and the
\* run has then failed without a result, whatever was completed before; a
\* failed run dispatches nothing more, reads nothing more and stays failed.
C7_State ==
  /\ pc = "failed" => returned = <<>> /\ error # NoError
  /\ delimiters # <<>> => \A k \in Failures(Replayed) : FailsAt(k)

C7_FailureIsFinal ==
  /\ []C7_State
  /\ [][(pc = "failed" /\ run' = run) =>
          UNCHANGED <<pc, error, returned, dispatched, reads, offset,
                      text_buffer, interchanges>>]_vars

C7_Witness ==
  /\ pc = "failed"
  /\ delimiters # <<>>
  /\ Failures(Replayed) # {}
  /\ interchanges # <<>>
  /\ SegmentsOf(text_buffer, delimiters[1].segment_terminator) # <<>>

\* C8: in the tokenizer loop, when the file is exhausted with text that is
\* not whitespace left in the buffer, the run fails with the
\* incomplete-segment error and that text is not dispatched; with nothing or
\* whitespace left, the final-state check decides.
C8_IncompleteSegment ==
  /\ error = "IncompleteSegment" =>
       /\ pc = "failed" /\ returned = <<>>
       /\ closed /\ offset = Len(stream)
       /\ Trim(text_buffer) # <<>>
       /\ Failures(Replayed) = {}
       /\ dispatched = SegmentsOf(stream, delimiters[1].segment_terminator)
  /\ AtEndOfStream =>
       /\ closed /\ offset = Len(stream)
       /\ IF Trim(text_buffer) # <<>> THEN error = "IncompleteSegment"
          ELSE /\ error \in UnclosedErrors \cup {NoError}
               /\ error = ValidateFinalState(ParserState)
               /\ (pc = "done") <=> (error = NoError)

C8_Witness ==
  /\ error = "IncompleteSegment"
  /\ Len(dispatched) >= 2

\* C9, as claimed: a file that does not begin with ISA fails with the
\* missing-opening-envelope error, before any segment is dispatched.
C9_MissingOpening ==
  (Ended /\ closed /\ chunk_size > 0 /\ stream # <<>>
         /\ ~StartsWith(stream, ISA)) =>
     /\ error = "MissingISA"
     /\ dispatched = <<>> /\ ~Occupied(ParserState) /\ interchanges = <<>>

\* C9, amended: a file that does not begin with ISA fails before any segment
\* is dispatched, with the missing-opening-envelope error once 106 characters
\* are buffered, and with the incomplete-envelope error when a read returns
\* nothing before that.
C9_MissingOrIncompleteOpening ==
  /\ (Ended /\ closed /\ ~StartsWith(stream, ISA)) =>
       /\ pc = "failed" /\ returned = <<>>
       /\ error = IF Len(text_buffer) >= ISA_SEGMENT_LENGTH
                  THEN "MissingISA" ELSE "IncompleteISA"
       /\ dispatched = <<>> /\ ~Occupied(ParserState) /\ interchanges = <<>>
  /\ (pc = "isa" \/ error \in IsaErrors) =>
       dispatched = <<>> /\ ~Occupied(ParserState) /\ interchanges = <<>>

C9_Witness ==
  /\ error = "MissingISA"
  /\ Len(stream) > ISA_SEGMENT_LENGTH

\* C10: every parser constructed has a positive chunk_size.
C10_PositiveChunkSize ==
  pc \notin {"start", "rejected"} => chunk_size > 0

\* ------------------------------------------------------------------ C11

\* C11: a file that begins with a 32-bit byte order mark is reported as the
\* 32-bit encoding of that mark with skip offset 4, never as a 16-bit
\* encoding; a file that begins with no byte order mark is reported as the
\* default encoding with skip offset 0.
C11_LongerMarkFirst ==
  detected # <<>> =>
    /\ StartsWith(binary_file, BOM_UTF32_LE) =>
          detected[1] = Detected("utf-32le", 4)
    /\ StartsWith(binary_file, BOM_UTF32_BE) =>
          detected[1] = Detected("utf-32be", 4)
    /\ (\A bom \in {BOM_UTF8, BOM_UTF16_LE, BOM_UTF16_BE, BOM_UTF32_LE,
                     BOM_UTF32_BE} : ~StartsWith(binary_file, bom)) =>
          detected[1] = Detected(DefaultEncoding, 0)

\* ------------------------------------------------------------------ C12

\* C12: parse_file called again on a parser that was used before, for the
\* same file, ends as the run before did on the fresh parser: with the same
\* error, or returning an equal list; what the run before left in the buffer,
\* the slots and the result list makes no difference.
C12_ResetAtEachRun ==
  (run = 3 /\ Ended) =>
     /\ error = first[1].error
     /\ returned = first[1].returned
     /\ chunk_size = first[1].chunk_size

C12_Witness ==
  /\ run = 3 /\ pc = "failed"
  /\ first[1].text_buffer # <<>>
  /\ Occupied(first[1].state)
  /\ first[1].state.interchanges # <<>>
  /\ dispatched # <<>>

\* ------------------------------------------------------------------ C13

\* C13: while segments are dispatched without error, the slots are in one of
\* the four legal configurations: an open transaction set implies an open
\* functional group, and an open functional group an open interchange.
C13_LegalConfigurations ==
  (pc \in {"loop", "done"} /\ error = NoError) =>
     /\ current_transaction_set # <<>> => current_functional_group # 0
     /\ current_functional_group # 0 => current_interchange # <<>>

\* ------------------------------------------------------------------ C14

\* The interchanges appended to the result list, with all they contain.
ClosedInterchanges == Result(ParserState)

\* C14: within a run, an interchange that is in the result list stays as it
\* is, with all it contains, and so does a functional group that has its GE,
\* whatever segments are dispatched after it without error.
C14_ClosedIsImmutable ==
  [][(pc = "loop" /\ run' = run /\ error' = NoError) =>
       /\ Len(interchanges') >= Len(interchanges)
       /\ \A i \in 1..Len(interchanges) :
            ClosedInterchanges'[i] = ClosedInterchanges[i]
       /\ \A g \in 1..Len(fgs) :
            fgs[g].ge_segment # <<>> => fgs'[g] = fgs[g]]_vars

\* ------------------------------------------------------------------ C15

\* C15: in the list a successful parse returns, every interchange has its
\* ISA and its IEA and at least one functional group, and every functional
\* group has its GE and at least one transaction set.
C15_Finalized ==
  pc = "done" =>
    \A i \in 1..Len(returned[1]) :
      LET ic == returned[1][i]
      IN  /\ ic.isa_segment # <<>> /\ ic.iea_segment # <<>>
          /\ ic.functional_groups # <<>>
          /\ \A g \in 1..Len(ic.functional_groups) :
               /\ ic.functional_groups[g].ge_segment # <<>>
               /\ ic.functional_groups[g].transaction_sets # <<>>

\* ------------------------------------------------------------------ C16

RECURSIVE Concat(_)
Concat(seqs) == IF seqs = <<>> THEN <<>> ELSE Head(seqs) \o Concat(Tail(seqs))

\* The elements of all at the indices K, in order.
RECURSIVE Sub(_, _)
Sub(all, K) ==
  IF K = {} THEN <<>>
  ELSE LET k == MinOf(K) IN <<all[k]>> \o Sub(all, K \ {k})

\* A segment without its position.
Content(segment) ==
  [segment_id |-> segment.segment_id, elements |-> segment.elements]

\* The dispatched segments as segment objects, without position.
DispatchedContent ==
  [k \in 1..Len(dispatched) |->
     Content(CreateSegment(ElementsOf(k)[1], ElementsOf(k), 0))]

\* The segments of the transaction sets of result, in order.
SegmentsIn(result) ==
  LET groups == Concat([i \in 1..Len(result) |-> result[i].functional_groups])
      sets == Concat([g \in 1..Len(groups) |-> groups[g].transaction_sets])
      segments == Concat([t \in 1..Len(sets) |-> sets[t].segments])
  IN  [n \in 1..Len(segments) |-> Content(segments[n])]

\* C16: in a successful parse, the transaction sets of each functional group
\* are those opened by the STs received while that group was the open one, in
\* order, and the segments of the transaction sets of the result are the ST,
\* SE and data segments dispatched, in order: none is discarded.
C16_NoTransactionSetLost ==
  pc = "done" =>
    LET o == Replayed
        inner == {k \in 1..Len(dispatched) :
                    ElementsOf(k)[1] \notin {ISA, IEA, GS, GE}}
    IN  /\ SegmentsIn(returned[1]) = Sub(DispatchedContent, inner)
        /\ \A g \in 1..Len(fgs) :
             LET opened == {k \in 1..Len(dispatched) :
                              /\ ElementsOf(k)[1] = ST
                              /\ StateBefore(o, k).current_functional_group = g}
             IN  [t \in 1..Len(fgs[g].transaction_sets) |->
                    Content(fgs[g].transaction_sets[t].segments[1])]
                   = Sub(DispatchedContent, opened)

\* ------------------------------------------------------------------ C17

\* The errors of a segment received out of its context, those of a wrong
\* number of elements, and those of the validation of a closing.
ContextErrors ==
  {"ISAWhileOpen", "GSOutsideInterchange", "STOutsideFunctionalGroup",
   "UnexpectedSegment", "DataOutsideTransactionSet", "IEAWithoutISA",
   "GEWithoutGS", "SEWithoutST"}

ElementCountErrors ==
  {"ISAElementCount", "IEAElementCount", "GSElementCount", "GEElementCount",
   "STElementCount", "SEElementCount"}

\* The level the segment code id requires is not as it requires it, in s.
OutOfContext(s, id) ==
  IF id = ISA THEN s.current_interchange # <<>>
  ELSE IF id \in {GS, IEA} THEN s.current_interchange = <<>>
  ELSE IF id \in {ST, GE} THEN s.current_functional_group = 0
  ELSE s.current_transaction_set = <<>>

\* The number of elements, the code included, that the handler of id wants.
RightCount(id, elements) ==
  IF id = ISA THEN Len(elements) = 17
  ELSE IF id = GS THEN Len(elements) = 9
  ELSE IF id \in {IEA, GE, ST, SE} THEN Len(elements) = 3
  ELSE TRUE

\* C17, as claimed: a segment received out of its context fails, and every
\* other segment with the right number of elements is accepted.
C17_RejectedOutOfContext ==
  delimiters # <<>> =>
    LET o == Replayed
    IN  \A k \in 1..Len(o) :
          LET id == ElementsOf(k)[1]
          IN  IF OutOfContext(StateBefore(o, k), id)
              THEN o[k].error # NoError
              ELSE RightCount(id, ElementsOf(k)) => o[k].error = NoError

\* C17, amended: a segment received out of its context fails, with the error
\* of its context when its number of elements is right; every other segment
\* with the right number of elements is taken by its operation: an opening
\* or a data segment is accepted, and a closing is accepted unless the
\* validation of the entity it closes fails.
C17_RejectedOrTaken ==
  delimiters # <<>> =>
    LET o == Replayed
    IN  \A k \in 1..Len(o) :
          LET id == ElementsOf(k)[1]
              right == RightCount(id, ElementsOf(k))
          IN  IF OutOfContext(StateBefore(o, k), id)
              THEN /\ o[k].error \in ContextErrors \cup ElementCountErrors
                   /\ right => o[k].error \in ContextErrors
                   /\ FailsAt(k)
              ELSE right =>
                     IF id \in {IEA, GE, SE}
                     THEN o[k].error \notin ContextErrors \cup ElementCountErrors
                     ELSE o[k].error = NoError

C17_Witness ==
  /\ error = "GSOutsideInterchange"
  /\ Len(dispatched) >= 3

\* ------------------------------------------------------------------ C18

\* The text without the whitespace around its segments and without its
\* whitespace-only slices: its segments, each followed by the terminator t.
Squeezed(text, t) ==
  LET pieces == SegmentsOf(text, t)
  IN  Concat([k \in 1..Len(pieces) |-> pieces[k] \o <<t>>])

\* C18: no empty or untrimmed slice is dispatched, and the run leaves what
\* the tokenizer leaves on the same text without its whitespace-only slices
\* and without the whitespace around its segments: the same segments are
\* dispatched, the slots, the segment counts and the result list are the
\* same, and the same segment fails, if any.
C18_WhitespaceSkipped ==
  /\ \A k \in 1..Len(dispatched) :
       dispatched[k] # <<>> /\ dispatched[k] = Trim(dispatched[k])
  /\ (Ended /\ delimiters # <<>>) =>
       LET w == ProcessChunk(Squeezed(stream, delimiters[1].segment_terminator),
                             ResetState, delimiters[1])
       IN  /\ w.handed = dispatched
           /\ w.state = ParserState
           /\ w.error = IF error \in UnclosedErrors \cup {"IncompleteSegment"}
                        THEN NoError ELSE error

C18_Witness ==
  /\ pc = "done"
  /\ \E i \in 1..(Len(stream) - 2) :
       stream[i] = "~" /\ stream[i + 1] = " " /\ stream[i + 2] = "~"
  /\ \E i \in 1..(Len(stream) - 1) : stream[i] = "\n" /\ stream[i + 1] = "R"

\* ------------------------------------------------------------------ C19

\* C19: with a positive chunk size, every turn of the loop of
\* _read_isa_segment and of the loop of parse_file that reads consumes a
\* chunk that is not empty or ends the run, and every turn of the loop of
\* _process_chunk that does not leave it shortens the buffer; no run makes
\* more reads than the file has characters, and one; and every run ends,
\* with a result or an error.
C19_Terminates ==
  /\ [][(reads' # reads) =>
          (offset' > offset \/ pc' \in {"done", "failed"})]_vars
  /\ [][(pc = "loop" /\ pc' = "loop") =>
          Len(text_buffer') < Len(text_buffer)]_vars
  /\ [](chunk_size > 0 /\ reads <= offset + 1 /\ offset <= Len(stream))
  /\ <>Ended

C19_Witness ==
  /\ Ended /\ chunk_size = 1
  /\ reads = Len(stream) + 1
  /\ Len(dispatched) >= 3

\* The first segment handed to the state machine has opened the first
\* interchange: it is the current one, with the elements of that segment,
\* no group yet and no interchange before it.
OpensFirstInterchange ==
  /\ current_interchange # <<>>
  /\ current_interchange[1].isa_segment =
       <<CreateSegment(ISA, Split(dispatched[1], stream[4]), 1)>>
  /\ current_interchange[1].functional_groups = <<>>
  /\ interchanges = <<>>

Numbered(ts) ==
  /\ ts.segment_count = Len(ts.segments)
  /\ \A k \in 1..Len(ts.segments) : ts.segments[k].position = k
  /\ ts.segments # <<>>
  /\ ts.segments[1].segment_id = ST

\* SE is the last segment of ts, and no other one.
ClosedBySE(ts) ==
  \A k \in 1..Len(ts.segments) :
    ts.segments[k].segment_id = SE <=> k = Len(ts.segments)

\* The elements of the list seq.
ElementsOfList(seq) == {seq[k] : k \in 1..Len(seq)}

\* The transaction sets of the list result.
TransactionSetsOf(result) ==
  UNION {UNION {ElementsOfList(result[i].functional_groups[g].transaction_sets) :
                  g \in 1..Len(result[i].functional_groups)} :
           i \in 1..Len(result)}

\* C21: the open transaction set, after every ST, data segment or SE it has
\* taken, has segment_count = len(segments), its k-th segment at position k
\* and ST first, with no SE before its last segment; every transaction set
\* of a functional group, and so of the list returned, has these and SE as
\* its last segment.
C21_SegmentsNumbered ==
  /\ current_transaction_set # <<>> =>
       LET ts == current_transaction_set[1]
       IN  /\ Numbered(ts)
           /\ \A k \in 1..(Len(ts.segments) - 1) :
                ts.segments[k].segment_id # SE
  /\ \A g \in 1..Len(fgs) :
       \A t \in 1..Len(fgs[g].transaction_sets) :
         Numbered(fgs[g].transaction_sets[t])
           /\ ClosedBySE(fgs[g].transaction_sets[t])
  /\ pc = "done" =>
       \A ts \in TransactionSetsOf(returned[1]) :
         Numbered(ts) /\ ClosedBySE(ts)

C21_Witness ==
  /\ pc = "done"
  /\ \E ts \in TransactionSetsOf(returned[1]) :
       /\ Len(ts.segments) = 3
       /\ ts.segments[2].segment_id = <<"R", "E", "F">>
       /\ ts.segment_count = 3

\* ------------------------------------------------------------------ C22

\* The separators at the fixed offsets of the first 106 characters.
FirstSeparators ==
  [element_separator   |-> stream[4],
   component_separator |-> stream[105],
   segment_terminator  |-> stream[106]]

\* A dispatched segment that _process_isa_segment takes: ISA with 16
\* elements, under the element separator of the first envelope.
TakenAsIsa(segment) ==
  LET elements == Split(segment, stream[4])
  IN  elements[1] = ISA /\ Len(elements) = 17

\* The interchanges of the parser: the closed ones and the open one.
Interchanges == interchanges \o current_interchange

\* ic records the separators of the first envelope, and its ISA segment has
\* the elements of the dispatched segment under the first element separator.
RecordsFirstSeparators(ic, segment) ==
  /\ ic.element_separator = stream[4]
  /\ ic.component_separator = stream[105]
  /\ ic.segment_terminator = stream[106]
  /\ ic.isa_segment = <<CreateSegment(ISA, Split(segment, stream[4]), 1)>>

\* C22: in a run, the delimiters are those at the characters 4, 105 and
\* 106 of the file from _read_isa_segment on; every segment dispatched, the
\* ISA of a second interchange included, is a piece of the file cut at that
\* terminator, and every interchange, closed, open or returned, records
\* those three separators and has the elements of its ISA split at that
\* element separator, whatever its own ISA has at the fixed offsets.
C22_DelimitersOfTheFirstEnvelope ==
  delimiters # <<>> =>
    LET consumed == offset - Len(text_buffer)
        isas == SelectSeq(dispatched, TakenAsIsa)
    IN  /\ delimiters = <<FirstSeparators>>
        /\ dispatched = SegmentsOf(SubSeq(stream, 1, consumed), stream[106])
        /\ Len(Interchanges) = Len(isas)
        /\ \A i \in 1..Len(Interchanges) :
             RecordsFirstSeparators(Interchanges[i], isas[i])
        /\ pc = "done" =>
             /\ Len(returned[1]) = Len(isas)
             /\ \A i \in 1..Len(returned[1]) :
                  RecordsFirstSeparators(returned[1][i], isas[i])

C22_Witness ==
  /\ pc = "done"
  /\ Len(returned[1]) = 2
  /\ returned[1][2].isa_segment[1].elements[16].value = <<">">>
  /\ returned[1][2].component_separator = ":"
  /\ stream[106 + Len(InterchangeBody) + 105] = ">"

====
